---- MODULE Spec2Model ----
(***************************************************************************)
(* Model of rllib/core/models/tf/heads.py: the auto_fold_unfold_time       *)
(* decorator and the forward passes of TfMLPHead, TfFreeLogStdMLPHead and  *)
(* TfCNNTransposeHead.                                                     *)
(*                                                                         *)
(* A tensor is a record [tag |-> "tensor", shape, data]: shape is the      *)
(* sequence of axis lengths and data the elements in row-major order.      *)
(* Element values are fixed-point numbers in units of 0.5, so that the     *)
(* offset 0.5 of the CNN transpose head is the integer CenterOffset.       *)
(***************************************************************************)
EXTENDS Integers, Sequences, FiniteSets, TLC

\* ------------------------------------------------------------------ bounds
\* Largest length of one axis of an input tensor.
MaxDim == 2
\* Largest log_std_clip_param of a config.
MaxClip == 2

\* The constant added by TfCNNTransposeHead._forward (0.5, in units of 0.5).
CenterOffset == 1

\* ------------------------------------------------------------ small helpers
Min(a, b) == IF a < b THEN a ELSE b
Max(a, b) == IF a > b THEN a ELSE b

RECURSIVE Prod(_)
Prod(s) == IF s = <<>> THEN 1 ELSE Head(s) * Prod(Tail(s))

RECURSIVE SumSeq(_)
SumSeq(s) == IF s = <<>> THEN 0 ELSE Head(s) + SumSeq(Tail(s))

None == [tag |-> "none"]

Tensor(shape, data) == [tag |-> "tensor", shape |-> shape, data |-> data]

\* Row-major offset (0-based) of the index tuple idx (0-based) in a tensor of
\* the given shape.
RECURSIVE Ravel(_, _)
Ravel(idx, shape) ==
    IF idx = <<>> THEN 0
    ELSE Head(idx) * Prod(Tail(shape)) + Ravel(Tail(idx), Tail(shape))

\* The element of tensor x at the 0-based index tuple idx.
At(x, idx) == x.data[Ravel(idx, x.shape) + 1]

\* ------------------------------------------------- tensor runtime operations
\* tf.is_tensor
TfIsTensor(x) == x.tag = "tensor"

\* tf.shape
TfShape(x) == x.shape

\* tf.reshape to an explicit shape: the row-major element order is kept.
TfReshape(x, shape) == Tensor(shape, x.data)

\* tf.reshape(x, (-1,) + dims): the leading axis is inferred.
TfReshapeInfer(x, dims) ==
    Tensor(<<Prod(x.shape) \div Max(1, Prod(dims))>> \o dims, x.data)

\* Number of rows (axis 0) and row length (all other axes) of a tensor.
NumRows(x) == IF Len(x.shape) = 0 THEN 1 ELSE x.shape[1]
RowLen(x) == IF Len(x.shape) = 0 THEN 1 ELSE Prod(Tail(x.shape))
Row(x, n) == SubSeq(x.data, (n - 1) * RowLen(x) + 1, n * RowLen(x))

\* The (n, d) tensor whose element in row r and column j (1-based) is
\* f[<<r, j>>].
FromRows(n, d, f) ==
    Tensor(<<n, d>>,
           [k \in 1..(n * d) |-> f[<<((k - 1) \div d) + 1, ((k - 1) % d) + 1>>]])

\* tf.split(x, num_or_size_splits=2, axis=-1) of an (n, d) tensor, d even.
TfSplit2(x) ==
    LET n == NumRows(x)
        h == RowLen(x) \div 2
    IN  << FromRows(n, h, [p \in (1..n) \X (1..h) |-> Row(x, p[1])[p[2]]]),
           FromRows(n, h, [p \in (1..n) \X (1..h) |-> Row(x, p[1])[h + p[2]]]) >>

\* tf.clip_by_value(t, lo, hi) on one element: maximum(minimum(t, hi), lo).
ClipScalar(v, lo, hi) == Max(Min(v, hi), lo)

\* tf.clip_by_value on a tensor, the bounds broadcast over all elements.
TfClipByValue(x, lo, hi) ==
    Tensor(x.shape, [k \in 1..Len(x.data) |-> ClipScalar(x.data[k], lo, hi)])

\* tf.concat([a, b], axis=-1) of an (n, da) and an (n, db) tensor.
TfConcat(a, b) ==
    LET da == RowLen(a)
        db == RowLen(b)
        n == NumRows(a)
    IN  FromRows(n, da + db,
                 [p \in (1..n) \X (1..(da + db)) |->
                    IF p[2] <= da THEN Row(a, p[1])[p[2]] ELSE Row(b, p[1])[p[2] - da]])

\* tf.tile(tf.expand_dims(v, 0), [n, 1]) of a vector v (a sequence).
TfTile(v, n) == FromRows(n, Len(v), [p \in (1..n) \X (1..Len(v)) |-> v[p[2]]])

\* 0-based index tuple of the row-major offset off in a tensor of that shape.
RECURSIVE Unravel(_, _)
Unravel(off, shape) ==
    IF shape = <<>> THEN <<>>
    ELSE LET p == Max(1, Prod(Tail(shape)))
         IN  <<off \div p>> \o Unravel(off % p, Tail(shape))

\* --------------------------------------------------------- outcomes of a call
Value(v) == [tag |-> "value", val |-> v]
Raised(e) == [tag |-> "raise", err |-> e]
Error(type, op, shape) == [type |-> type, op |-> op, shape |-> shape]

\* The execution modes of the tensor runtime, one per call. An op that rejects
\* its arguments raises InvalidArgumentError when run eagerly and ValueError
\* when traced into a graph (the check is then made by shape inference).
Modes == {"eager", "graph"}
OpErrorType(m) == IF m = "eager" THEN "InvalidArgumentError" ELSE "ValueError"

\* ------------------------------------------------------------------- configs
\* Weights the feed-forward and dense layers may hold (after initialisation
\* and after training steps), and the steps a trained log_std may take.
InitWeights == {1}
Weights == {1, 3}
LogStdSteps == {-2, 0, 1}

\* config.input_dims[0] and config.output_dims[0] of the configs.
InputDims == {1, 2}
OutputDims == {1, 2, 3, 4}
ClipConfigs == {<<FALSE, 1>>} \cup { <<TRUE, c>> : c \in 1..MaxClip }

Config(kind, d, o, clip, c, img, stride, ch) ==
    [tag |-> "config", kind |-> kind, input_dim |-> d, output_dim |-> o,
     clip_log_std |-> clip, log_std_clip_param |-> c,
     initial_image_dims |-> img, stride |-> stride, channels |-> ch]

MLPHeadConfigs ==
    { Config("mlp", d, o, cc[1], cc[2], <<>>, 1, 1) :
        d \in InputDims, o \in OutputDims, cc \in ClipConfigs }

FreeLogStdMLPHeadConfigs ==
    { Config("free", d, o, cc[1], cc[2], <<>>, 1, 1) :
        d \in InputDims, o \in OutputDims, cc \in ClipConfigs }

InitialImageDims == { <<1, 1, 1>>, <<1, 2, 2>>, <<2, 1, 1>> }
\* <<stride, channels>> of the transposed-convolution layer.
FilterSpecifiers == { <<1, 2>>, <<2, 1>> }

CNNTransposeHeadConfigs ==
    { Config("cnn", d, 0, FALSE, 1, img, fs[1], fs[2]) :
        d \in InputDims, img \in InitialImageDims, fs \in FilterSpecifiers }

\* config.output_dims of a CNNTransposeHeadConfig: one transposed-convolution
\* layer with "same" padding scales width and height by its stride.
CNNOutputDims(cfg) ==
    << cfg.initial_image_dims[1] * cfg.stride,
       cfg.initial_image_dims[2] * cfg.stride,
       cfg.channels >>

\* TensorSpec("b, d", d=config.input_dims[0]).
TensorSpecBD(d) == [tag |-> "spec", rank |-> 2, d |-> d]

\* TensorSpec.validate: the tensor must have the spec's rank and its fixed
\* axis must have the spec's length; a mismatch is a ValueError.
Validate(spec, x) ==
    IF Len(x.shape) = spec.rank /\ x.shape[2] = spec.d
    THEN Value(x)
    ELSE Raised(Error("ValueError", "validate", x.shape))

\* --------------------------------------------------------------- sub-networks
\* TfMLP: a feed-forward network applied to every row independently.
Net(w, x, outDim) ==
    FromRows(NumRows(x), outDim,
             [p \in (1..NumRows(x)) \X (1..outDim) |->
                w * SumSeq(Row(x, p[1])) + 2 * p[2] - 3])

\* The initial dense layer of the CNN transpose head.
InitialDense(w, x, units) ==
    FromRows(NumRows(x), units,
             [p \in (1..NumRows(x)) \X (1..units) |->
                w * SumSeq(Row(x, p[1])) + p[2]])

\* TfCNNTranspose with one layer: an (n, w, h, f) image becomes
\* (n, w * stride, h * stride, channels).
CnnTransposeNet(h, x) ==
    LET s == h.config.stride
        f == x.shape[4]
        shape == <<x.shape[1], x.shape[2] * s, x.shape[3] * s, h.config.channels>>
    IN  Tensor(shape,
          [k \in 1..Prod(shape) |->
             LET i == Unravel(k - 1, shape)
             IN  h.w * SumSeq([c \in 1..f |->
                        At(x, <<i[1], i[2] \div s, i[3] \div s, c - 1>>)]) + i[4]])

\* --------------------------------------------------------------------- heads
\* A head instance: the attributes the constructors set. w stands for the
\* weights of the head's sub-networks; attributes a class does not have are
\* 0 or <<>>.
HeadObj(cfg, w, half, log_std) ==
    [tag |-> "head", kind |-> cfg.kind, config |-> cfg,
     input_specs |-> TensorSpecBD(cfg.input_dim), w |-> w,
     clip_log_std |-> cfg.clip_log_std,
     log_std_clip_param |-> cfg.log_std_clip_param,
     half_output_dim |-> half, log_std |-> log_std]

\* tf.zeros(n)
TfZeros(n) == [j \in 1..n |-> 0]

\* TfMLPHead._forward with the clipping applied to the whole network output
\* instead of its log-std half.
MLPForward_ClipAll(h, inputs, m) ==
    LET out == Net(h.w, inputs, h.config.output_dim)
    IN  IF h.clip_log_std
        THEN IF h.config.output_dim % 2 # 0
             THEN Raised(Error(OpErrorType(m), "split", out.shape))
             ELSE Value(TfClipByValue(out, -h.log_std_clip_param,
                                      h.log_std_clip_param))
        ELSE Value(out)

\* TfMLPHead._forward
MLPForward(h, inputs, m) ==
    LET out == Net(h.w, inputs, h.config.output_dim)
    IN  IF h.clip_log_std
        THEN IF h.config.output_dim % 2 # 0
             THEN Raised(Error(OpErrorType(m), "split", out.shape))
             ELSE LET parts == TfSplit2(out)
                      means == parts[1]
                      log_stds == TfClipByValue(parts[2], -h.log_std_clip_param,
                                                h.log_std_clip_param)
                  IN  Value(TfConcat(means, log_stds))
        ELSE Value(out)

\* The log_std vector with clip_log_std ignored.
FreeLogStd_NeverClipped(h) == h.log_std

\* The log_std vector TfFreeLogStdMLPHead._forward broadcasts.
FreeLogStd(h) ==
    IF h.clip_log_std
    THEN [j \in 1..Len(h.log_std) |->
            ClipScalar(h.log_std[j], -h.log_std_clip_param, h.log_std_clip_param)]
    ELSE h.log_std

\* TfFreeLogStdMLPHead._forward
FreeLogStdForward(h, inputs) ==
    LET mean == Net(h.w, inputs, h.half_output_dim)
        log_std_out == TfTile(FreeLogStd(h), TfShape(inputs)[1])
    IN  Value(TfConcat(mean, log_std_out))

\* TfCNNTransposeHead._forward, up to the transposed-convolution stack.
CNNInitialImage(h, inputs) ==
    TfReshapeInfer(
        InitialDense(h.w, inputs, Prod(h.config.initial_image_dims)),
        h.config.initial_image_dims)

CNNPreOffset(h, inputs) == CnnTransposeNet(h, CNNInitialImage(h, inputs))

\* The output returned without the offset.
AddOffset_Missing(x) == x

\* out + 0.5
AddOffset(x) == Tensor(x.shape, [k \in 1..Len(x.data) |-> x.data[k] + CenterOffset])

\* TfCNNTransposeHead._forward
CNNTransposeForward(h, inputs) == Value(AddOffset(CNNPreOffset(h, inputs)))

\* func(self, inputs): the _forward of the head's class.
Func(h, inputs, m) ==
    CASE h.kind = "mlp" -> MLPForward(h, inputs, m)
      [] h.kind = "free" -> FreeLogStdForward(h, inputs)
      [] OTHER -> CNNTransposeForward(h, inputs)

\* -------------------------------------------------------------------- inputs
\* Shapes of rank 0 and 1 (no two leading axes), 2 ((b, d)) and 3 ((b, t, d))
\* with axes of length 0..MaxDim, and rank-4 shapes, which are still of rank 3
\* after their first two axes are folded.
Shapes == UNION { [1..r -> 0..MaxDim] : r \in 0..3 } \cup [1..4 -> {1, MaxDim}]
MkData(n) == [i \in 1..n |-> ((i * i) % 5) - 2]

TensorInputs == { Tensor(s, MkData(Prod(s))) : s \in Shapes }

\* Inputs that are no tf.Tensor: None, and numpy arrays of a valid shape
\* (shape and data are what np.shape and np.asarray give for them).
NonTensorInputs ==
    { [tag |-> "NoneType", shape |-> <<>>, data |-> <<>>] } \cup
    { [tag |-> "ndarray", shape |-> <<1, d>>, data |-> MkData(d)] : d \in InputDims }

Inputs == TensorInputs \cup NonTensorInputs

\* --------------------------------------------------------------------- state
VARIABLES
    config,           \* the config handed to the constructor
    head,             \* the head instance (None before/without construction)
    pc,               \* position of the program
    input_data,       \* wrapper argument
    actual_shape,     \* wrapper local
    original_error,   \* wrapper local
    b, t,             \* wrapper locals
    new_shape,        \* wrapper local
    reshaped_inputs,  \* wrapper local
    outputs,          \* wrapper local
    calls,            \* the arguments func was called with in this call of the wrapper
    ret,              \* outcome of the constructor or of the wrapper call
    trained,          \* history: a training step has been taken on the head
    called            \* history: a call of the wrapper on the head has ended

locals == <<actual_shape, original_error, b, t, new_shape, reshaped_inputs, outputs>>
hist == <<trained, called>>
vars == <<config, head, pc, input_data, locals, calls, ret, hist>>

NoLocals ==
    /\ actual_shape = <<>>
    /\ original_error = None
    /\ b = 0
    /\ t = 0
    /\ new_shape = <<>>
    /\ reshaped_inputs = None
    /\ outputs = None

Init ==
    /\ config = None
    /\ head = None
    /\ pc = "start"
    /\ input_data = None
    /\ NoLocals
    /\ calls = <<>>
    /\ ret = None
    /\ trained = FALSE
    /\ called = FALSE

\* -------------------------------------------------------------- constructors
ResetCall ==
    /\ input_data' = None
    /\ actual_shape' = <<>>
    /\ original_error' = None
    /\ b' = 0
    /\ t' = 0
    /\ new_shape' = <<>>
    /\ reshaped_inputs' = None
    /\ outputs' = None
    /\ calls' = <<>>

\* TfMLPHead.__init__
TfMLPHeadInit ==
    /\ pc = "start"
    /\ \E cfg \in MLPHeadConfigs, w \in InitWeights :
         /\ config' = cfg
         /\ head' = HeadObj(cfg, w, 0, <<>>)
    /\ pc' = "idle"
    /\ UNCHANGED <<input_data, locals, calls, ret, hist>>

\* TfFreeLogStdMLPHead.__init__ without the assertion on output_dims[0].
TfFreeLogStdMLPHeadInit_NoAssert ==
    /\ pc = "start"
    /\ \E cfg \in FreeLogStdMLPHeadConfigs, w \in InitWeights :
         /\ config' = cfg
         /\ LET half == cfg.output_dim \div 2
            IN  head' = HeadObj(cfg, w, half, TfZeros(half))
    /\ pc' = "idle"
    /\ UNCHANGED <<input_data, locals, calls, ret, hist>>

\* TfFreeLogStdMLPHead.__init__
TfFreeLogStdMLPHeadInit ==
    /\ pc = "start"
    /\ \E cfg \in FreeLogStdMLPHeadConfigs, w \in InitWeights :
         /\ config' = cfg
         /\ IF cfg.output_dim % 2 # 0
            THEN /\ head' = None
                 /\ ret' = Raised(Error("AssertionError", "__init__", <<cfg.output_dim>>))
                 /\ pc' = "ctor_failed"
            ELSE LET half == cfg.output_dim \div 2
                 IN  /\ head' = HeadObj(cfg, w, half, TfZeros(half))
                     /\ ret' = ret
                     /\ pc' = "idle"
    /\ UNCHANGED <<input_data, locals, calls, hist>>

\* TfCNNTransposeHead.__init__
TfCNNTransposeHeadInit ==
    /\ pc = "start"
    /\ \E cfg \in CNNTransposeHeadConfigs, w \in InitWeights :
         /\ config' = cfg
         /\ head' = HeadObj(cfg, w, 0, <<>>)
    /\ pc' = "idle"
    /\ UNCHANGED <<input_data, locals, calls, ret, hist>>

\* A training step between two calls, after a forward pass: the optimizer
\* assigns the trainable variables of the head (the sub-network weights and,
\* for the free-log-std head, log_std).
Train ==
    /\ pc = "idle"
    /\ called
    /\ \E w \in Weights, v \in LogStdSteps :
         /\ head.kind # "free" => v = 0
         /\ head' = [head EXCEPT !.w = w,
                                 !.log_std = [j \in 1..Len(head.log_std) |-> v * j]]
         /\ head' # head
    /\ trained' = TRUE
    /\ UNCHANGED <<config, pc, input_data, locals, calls, ret, called>>

\* ------------------------------------------------- auto_fold_unfold_time.wrapper
\* The caller invokes head._forward(x), i.e. wrapper(self, input_data).
Call ==
    /\ pc = "idle"
    /\ \E x \in Inputs : input_data' = x
    /\ pc' = "precheck"
    /\ UNCHANGED <<config, head, locals, calls, ret, hist>>

\* The pre-checks without the tf.is_tensor check.
PreCheck_NoTensorCheck ==
    /\ pc = "precheck"
    /\ IF head.input_specs.tag # "spec"
       THEN /\ ret' = Raised(Error("ValueError", "hasattr", <<>>))
            /\ pc' = "raised"
            /\ UNCHANGED actual_shape
       ELSE /\ actual_shape' = TfShape(input_data)
            /\ pc' = "validate"
            /\ UNCHANGED ret
    /\ UNCHANGED <<config, head, input_data, original_error, b, t,
                   new_shape, reshaped_inputs, outputs, calls, hist>>

\* hasattr / tf.is_tensor checks, then actual_shape and spec are read.
PreCheck ==
    /\ pc = "precheck"
    /\ IF head.input_specs.tag # "spec"
       THEN /\ ret' = Raised(Error("ValueError", "hasattr", <<>>))
            /\ pc' = "raised"
            /\ UNCHANGED actual_shape
       ELSE IF ~TfIsTensor(input_data)
       THEN /\ ret' = Raised(Error("ValueError", "is_tensor", <<>>))
            /\ pc' = "raised"
            /\ UNCHANGED actual_shape
       ELSE /\ actual_shape' = TfShape(input_data)
            /\ pc' = "validate"
            /\ UNCHANGED ret
    /\ UNCHANGED <<config, head, input_data, original_error, b, t,
                   new_shape, reshaped_inputs, outputs, calls, hist>>

\* The direct validation taken as failed whatever the input.
ValidateDirect_AlwaysFold ==
    /\ pc = "validate"
    /\ original_error' = Error("ValueError", "validate", input_data.shape)
    /\ pc' = "fold"
    /\ UNCHANGED <<config, head, input_data, actual_shape, b, t,
                   new_shape, reshaped_inputs, outputs, calls, ret, hist>>

\* try: spec.validate(input_data) / except ValueError as original_error
ValidateDirect ==
    /\ pc = "validate"
    /\ LET v == Validate(head.input_specs, input_data)
       IN  IF v.tag = "raise"
           THEN /\ original_error' = v.err
                /\ pc' = "fold"
           ELSE /\ pc' = "call_direct"
                /\ UNCHANGED original_error
    /\ UNCHANGED <<config, head, input_data, actual_shape, b, t,
                   new_shape, reshaped_inputs, outputs, calls, ret, hist>>

\* The fold with the rank of the input remembered on the head's input spec.
Fold_CachesOnSelf ==
    /\ pc = "fold"
    /\ head' = [head EXCEPT !.input_specs.rank = Max(2, Len(actual_shape))]
    /\ IF Len(actual_shape) < 2
       THEN /\ \E m \in Modes :
                 ret' = Raised(Error(OpErrorType(m), "strided_slice", actual_shape))
            /\ pc' = "raised"
            /\ UNCHANGED <<b, t, new_shape, reshaped_inputs>>
       ELSE /\ b' = actual_shape[1]
            /\ t' = actual_shape[2]
            /\ new_shape' = <<actual_shape[1] * actual_shape[2]>>
                              \o SubSeq(actual_shape, 3, Len(actual_shape))
            /\ reshaped_inputs' = TfReshape(input_data, new_shape')
            /\ pc' = "validate_folded"
            /\ UNCHANGED ret
    /\ UNCHANGED <<config, input_data, actual_shape, original_error,
                   outputs, calls, hist>>

\* b, t, other_dims, new_shape and reshaped_inputs are computed. Reading
\* actual_shape[0] or actual_shape[1] of a shape with fewer than two axes is
\* rejected by the runtime's strided slice.
Fold ==
    /\ pc = "fold"
    /\ IF Len(actual_shape) < 2
       THEN /\ \E m \in Modes :
                 ret' = Raised(Error(OpErrorType(m), "strided_slice", actual_shape))
            /\ pc' = "raised"
            /\ UNCHANGED <<b, t, new_shape, reshaped_inputs>>
       ELSE /\ b' = actual_shape[1]
            /\ t' = actual_shape[2]
            /\ new_shape' = <<actual_shape[1] * actual_shape[2]>>
                              \o SubSeq(actual_shape, 3, Len(actual_shape))
            /\ reshaped_inputs' = TfReshape(input_data, new_shape')
            /\ pc' = "validate_folded"
            /\ UNCHANGED ret
    /\ UNCHANGED <<config, head, input_data, actual_shape, original_error,
                   outputs, calls, hist>>

\* try: spec.validate(reshaped_inputs) / except ValueError as new_error
ValidateFolded ==
    /\ pc = "validate_folded"
    /\ LET v == Validate(head.input_specs, reshaped_inputs)
       IN  IF v.tag = "raise"
           THEN /\ ret' = Raised([type |-> "SpecCheckingError",
                                  op |-> "validate",
                                  shape |-> actual_shape,
                                  new_shape |-> new_shape,
                                  original_error |-> original_error,
                                  new_error |-> v.err])
                /\ pc' = "raised"
           ELSE /\ pc' = "call_folded"
                /\ UNCHANGED ret
    /\ UNCHANGED <<config, head, input_data, locals, calls, hist>>

\* outputs = func(self, reshaped_inputs, **kwargs)
CallFolded ==
    /\ pc = "call_folded"
    /\ calls' = Append(calls, reshaped_inputs)
    /\ \E m \in Modes :
         LET r == Func(head, reshaped_inputs, m)
         IN  IF r.tag = "raise"
             THEN /\ ret' = r
                  /\ pc' = "raised"
                  /\ UNCHANGED outputs
             ELSE /\ outputs' = r.val
                  /\ pc' = "unfold"
                  /\ UNCHANGED ret
    /\ UNCHANGED <<config, head, input_data, actual_shape, original_error,
                   b, t, new_shape, reshaped_inputs, hist>>

\* The unfold with b and t swapped.
Unfold_Swapped ==
    /\ pc = "unfold"
    /\ ret' = Value(TfReshape(outputs, <<t, b>> \o Tail(TfShape(outputs))))
    /\ pc' = "done"
    /\ UNCHANGED <<config, head, input_data, locals, calls, hist>>

\* return tf.reshape(outputs, tf.concat([[b, t], tf.shape(outputs)[1:]], axis=0))
Unfold ==
    /\ pc = "unfold"
    /\ ret' = Value(TfReshape(outputs, <<b, t>> \o Tail(TfShape(outputs))))
    /\ pc' = "done"
    /\ UNCHANGED <<config, head, input_data, locals, calls, hist>>

\* The direct call of func made inside the try block: a ValueError raised by
\* func is taken for a validation error and starts the fold.
CallDirect_InsideTry ==
    /\ pc = "call_direct"
    /\ calls' = Append(calls, input_data)
    /\ \E m \in Modes :
         LET r == Func(head, input_data, m)
         IN  IF r.tag = "raise" /\ r.err.type = "ValueError"
             THEN /\ original_error' = r.err
                  /\ pc' = "fold"
                  /\ UNCHANGED ret
             ELSE /\ ret' = r
                  /\ pc' = IF r.tag = "raise" THEN "raised" ELSE "done"
                  /\ UNCHANGED original_error
    /\ UNCHANGED <<config, head, input_data, actual_shape, b, t, new_shape,
                   reshaped_inputs, outputs, hist>>

\* return func(self, input_data, **kwargs)
CallDirect ==
    /\ pc = "call_direct"
    /\ calls' = Append(calls, input_data)
    /\ \E m \in Modes :
         LET r == Func(head, input_data, m)
         IN  /\ ret' = r
             /\ pc' = IF r.tag = "raise" THEN "raised" ELSE "done"
    /\ UNCHANGED <<config, head, input_data, locals, hist>>

\* The call is over: the caller has the value or the exception, and the
\* wrapper's frame is gone.
Return ==
    /\ pc \in {"done", "raised"}
    /\ pc' = "idle"
    /\ ret' = None
    /\ ResetCall
    /\ called' = TRUE
    /\ UNCHANGED <<config, head, trained>>

Next ==
    \/ TfMLPHeadInit
    \/ TfFreeLogStdMLPHeadInit
    \/ TfCNNTransposeHeadInit
    \/ Train
    \/ Call
    \/ PreCheck
    \/ ValidateDirect
    \/ Fold
    \/ ValidateFolded
    \/ CallFolded
    \/ Unfold
    \/ CallDirect
    \/ Return

Spec == Init /\ [][Next]_vars

\* ========================================================== properties
\* Positions inside a call of the wrapper, and positions where it has ended.
InCall == pc \in {"precheck", "validate", "fold", "validate_folded",
                  "call_folded", "unfold", "call_direct", "done", "raised"}
Ended == pc \in {"done", "raised"}

\* A shape that satisfies the head's input spec "b, d" with d = input_dims[0].
MatchesSpec(shape) == Len(shape) = 2 /\ shape[2] = head.config.input_dim

\* Shape and elements of x with its first two axes folded: row r of the result
\* is the slice [r \div T, r % T] of x.
FoldedShape(shape) == <<shape[1] * shape[2]>> \o SubSeq(shape, 3, Len(shape))
FoldedOf(x) ==
    LET T == x.shape[2]
        shape == FoldedShape(x.shape)
    IN  Tensor(shape,
          [k \in 1..Prod(shape) |->
             LET i == Unravel(k - 1, shape)
             IN  At(x, <<i[1] \div T, i[1] % T>> \o Tail(i))])

\* v clipped into [-c, c].
Clamp(v, c) == IF v < -c THEN -c ELSE IF v > c THEN c ELSE v

\* func has returned a value in this call: its argument and its result.
FReturned == pc = "unfold" \/ (pc = "done" /\ reshaped_inputs = None)
FArg == calls[1]
FOut == IF pc = "unfold" THEN outputs ELSE ret.val

\* C1: an input that passes the input spec directly is handed to func as it
\* is, exactly once, with no reshape of input or output, and the wrapper's
\* outcome is func's outcome: g(x) = f(x).
C1_DirectCallIsNoOp ==
    (Ended /\ TfIsTensor(input_data) /\ MatchesSpec(input_data.shape)) =>
        /\ calls = <<input_data>>
        /\ \E m \in Modes : ret = Func(head, input_data, m)
        /\ reshaped_inputs = None
        /\ outputs = None

C1_Witness ==
    /\ pc = "done"
    /\ TfIsTensor(input_data)
    /\ MatchesSpec(input_data.shape)
    /\ input_data.shape[1] >= 2
    /\ ret = Func(head, input_data, "eager")

\* An input of shape (B, T, F) with F the head's input dimension.
C2_FoldCase ==
    /\ TfIsTensor(input_data)
    /\ Len(input_data.shape) = 3
    /\ input_data.shape[3] = head.config.input_dim

\* C2: an input of shape (B, T, F) whose fold (B*T, F) passes the input spec
\* makes the wrapper call func once on the folded input; when func returns y
\* the wrapper returns a tensor of shape (B, T) + y.shape[1:] whose element at
\* (i, j, ...) is y's element at (i*T + j, ...).
C2_FoldUnfold ==
    (Ended /\ C2_FoldCase) =>
        LET B == input_data.shape[1]
            T == input_data.shape[2]
            fx == FoldedOf(input_data)
            y == Func(head, fx, "eager")
        IN  /\ calls = <<fx>>
            /\ IF y.tag = "raise"
               THEN \E m \in Modes : ret = Func(head, fx, m)
               ELSE /\ pc = "done"
                    /\ ret.tag = "value"
                    /\ ret.val.shape = <<B, T>> \o Tail(y.val.shape)
                    /\ Len(ret.val.data) = Prod(ret.val.shape)
                    /\ \A k \in 1..Prod(ret.val.shape) :
                         LET i == Unravel(k - 1, ret.val.shape)
                         IN  At(ret.val, i) =
                               At(y.val, <<i[1] * T + i[2]>> \o SubSeq(i, 3, Len(i)))

C2_Witness ==
    /\ pc = "done"
    /\ C2_FoldCase
    /\ input_data.shape[1] = 2
    /\ input_data.shape[2] = 2
    /\ head.kind = "cnn"
    /\ Len(ret.val.shape) = 5

\* A tensor input that matches the input spec neither directly nor folded
\* (an input with fewer than two axes has no fold).
C3_NeitherMatches ==
    /\ TfIsTensor(input_data)
    /\ ~MatchesSpec(input_data.shape)
    /\ ~(Len(input_data.shape) >= 2 /\ MatchesSpec(FoldedShape(input_data.shape)))

\* C3 (as claimed): every tensor input, of any rank, that matches the input
\* spec neither directly nor after folding its first two axes makes the wrapper
\* fail with a SpecCheckingError that carries the original shape, the attempted
\* new shape and both validation errors, and func is not called.
C3_SpecCheckingErrorForAnyRank ==
    (Ended /\ C3_NeitherMatches) =>
        /\ pc = "raised"
        /\ calls = <<>>
        /\ ret.err.type = "SpecCheckingError"
        /\ ret.err.shape = input_data.shape
        /\ Len(input_data.shape) >= 2 => ret.err.new_shape = FoldedShape(input_data.shape)
        /\ ret.err.original_error.type = "ValueError"
        /\ ret.err.new_error.type = "ValueError"

\* C4 (as claimed): an input that is no tensor makes the wrapper fail with a
\* TypeError before the shape is read, before any validation or reshape, and
\* without calling func.
C4_NonTensorTypeError ==
    (InCall /\ pc # "precheck" /\ ~TfIsTensor(input_data)) =>
        /\ pc = "raised"
        /\ ret.err.type = "TypeError"
        /\ NoLocals
        /\ calls = <<>>

\* C4 (amended): an input that is no tensor makes the wrapper fail with a
\* ValueError, raised by the tf.is_tensor check, before the shape is read,
\* before any validation or reshape, and without calling func.
C4_NonTensorValueError ==
    (InCall /\ pc # "precheck" /\ ~TfIsTensor(input_data)) =>
        /\ pc = "raised"
        /\ ret.err.type = "ValueError"
        /\ ret.err.op = "is_tensor"
        /\ NoLocals
        /\ calls = <<>>

C4_Witness ==
    /\ pc = "raised"
    /\ input_data.tag = "ndarray"
    /\ MatchesSpec(input_data.shape)
    /\ ret.err.op = "is_tensor"

\* C5: constructing a free-log-std head with an odd output dimension fails in
\* the constructor and leaves no head instance; with an even output dimension
\* it succeeds and _half_output_dim is output_dim / 2.
C5_OddOutputDimRejected ==
    (config.tag = "config" /\ config.kind = "free") =>
        IF config.output_dim % 2 # 0
        THEN /\ pc = "ctor_failed"
             /\ head = None
             /\ ret.tag = "raise"
             /\ ret.err.type = "AssertionError"
        ELSE /\ pc # "ctor_failed"
             /\ head.tag = "head"
             /\ 2 * head.half_output_dim = config.output_dim
             /\ Len(head.log_std) = head.half_output_dim

C5_Witness ==
    /\ pc = "ctor_failed"
    /\ config.kind = "free"
    /\ config.output_dim = 3
    /\ head = None

\* C6: TfMLPHead._forward returns a tensor of the shape of the network output;
\* with clip_log_std its first half along the feature axis is the network's
\* first half and every element of its second half is the network's value
\* clipped into [-c, c]; without clip_log_std every element is the network's.
C6_MLPHeadForward ==
    (FReturned /\ head.kind = "mlp") =>
        LET D == config.output_dim
            net == Net(head.w, FArg, D)
        IN  /\ FOut.shape = <<FArg.shape[1], D>>
            /\ Len(FOut.data) = FArg.shape[1] * D
            /\ Len(net.data) = Len(FOut.data)
            /\ \A r \in 0..(FArg.shape[1] - 1), j \in 0..(D - 1) :
                 At(FOut, <<r, j>>) =
                   IF config.clip_log_std /\ 2 * j >= D
                   THEN Clamp(At(net, <<r, j>>), config.log_std_clip_param)
                   ELSE At(net, <<r, j>>)

\* A forward pass with clipping in which a log-std element is cut down to c
\* while a larger mean element is left as it is.
C6_Witness ==
    /\ FReturned
    /\ head.kind = "mlp"
    /\ config.clip_log_std
    /\ config.output_dim = 4
    /\ FArg.shape[1] >= 2
    /\ \E r \in 0..(FArg.shape[1] - 1) :
         /\ At(Net(head.w, FArg, 4), <<r, 3>>) > config.log_std_clip_param
         /\ At(FOut, <<r, 3>>) = config.log_std_clip_param
         /\ At(FOut, <<r, 1>>) > config.log_std_clip_param

\* The vector L: the head's log_std, clipped into [-c, c] with clip_log_std.
C7_LogStd ==
    [j \in 1..(config.output_dim \div 2) |->
        IF config.clip_log_std
        THEN Clamp(head.log_std[j], config.log_std_clip_param)
        ELSE head.log_std[j]]

\* C7: TfFreeLogStdMLPHead._forward on N rows returns a tensor of shape
\* (N, output_dim) whose first half is net(inputs) and whose log-std half is,
\* in every row, the same vector L: log_std clipped into [-c, c] with
\* clip_log_std and log_std itself without. L is all zeros for a head that
\* has not been trained.
C7_FreeLogStdForward ==
    (FReturned /\ head.kind = "free") =>
        LET N == FArg.shape[1]
            D == config.output_dim
            h == D \div 2
            mean == Net(head.w, FArg, h)
        IN  /\ FOut.shape = <<N, D>>
            /\ Len(FOut.data) = N * D
            /\ \A r \in 0..(N - 1), j \in 0..(h - 1) :
                 /\ At(FOut, <<r, j>>) = At(mean, <<r, j>>)
                 /\ At(FOut, <<r, h + j>>) = C7_LogStd[j + 1]
            /\ ~trained => \A j \in 1..h : C7_LogStd[j] = 0

\* A forward pass on several rows of a trained head whose log_std is clipped.
C7_Witness ==
    /\ FReturned
    /\ head.kind = "free"
    /\ trained
    /\ config.clip_log_std
    /\ config.output_dim = 4
    /\ FArg.shape[1] >= 2
    /\ head.log_std[2] < -config.log_std_clip_param
    /\ At(FOut, <<1, 3>>) = -config.log_std_clip_param

\* C8: TfCNNTransposeHead._forward on N rows reshapes the dense projection to
\* (N,) + initial_image_dims, returns a tensor of shape (N,) + output_dims, and
\* every element of it is the element of the transposed-convolution stack's
\* output plus 0.5.
C8_CNNTransposeForward ==
    (FReturned /\ head.kind = "cnn") =>
        LET N == FArg.shape[1]
            img == CNNInitialImage(head, FArg)
            pre == CnnTransposeNet(head, img)
        IN  /\ img.shape = <<N>> \o config.initial_image_dims
            /\ Len(img.data) = Prod(img.shape)
            /\ FOut.shape = <<N>> \o CNNOutputDims(config)
            /\ Len(FOut.data) = Prod(FOut.shape)
            /\ \A k \in 1..Len(FOut.data) : FOut.data[k] = pre.data[k] + CenterOffset

C8_Witness ==
    /\ FReturned
    /\ head.kind = "cnn"
    /\ FArg.shape[1] >= 2
    /\ config.stride = 2
    /\ config.initial_image_dims = <<1, 2, 2>>
    /\ FOut.shape = <<FArg.shape[1], 2, 4, 1>>

\* C9: in one call of the wrapper func is invoked at most once: exactly once
\* when the wrapper returns a value, not at all when it fails in a pre-check,
\* in the fold or in validation. An error raised by func is the wrapper's
\* outcome; on the direct path it starts no fold and no second call.
C9_FuncCalledAtMostOnce ==
    /\ Len(calls) <= 1
    /\ pc \in {"precheck", "validate", "fold", "validate_folded"} => calls = <<>>
    /\ pc = "done" => Len(calls) = 1
    /\ pc = "raised" =>
         IF ret.err.op \in {"hasattr", "is_tensor", "strided_slice", "validate"}
         THEN calls = <<>>
         ELSE /\ Len(calls) = 1
              /\ \E m \in Modes : ret = Func(head, calls[1], m)
              /\ calls[1] = input_data =>
                   /\ original_error = None
                   /\ reshaped_inputs = None

\* func raised a ValueError on the direct path.
C9_Witness ==
    /\ pc = "raised"
    /\ ret.err.op = "split"
    /\ ret.err.type = "ValueError"
    /\ calls = <<input_data>>
    /\ original_error = None

\* The outcomes (one per execution mode) of a call of the wrapper on the head
\* with the input input_data as the first call on the head.
C10_FirstCallOutcomes ==
    IF ~TfIsTensor(input_data)
    THEN { Raised(Error("ValueError", "is_tensor", <<>>)) }
    ELSE IF MatchesSpec(input_data.shape)
    THEN { Func(head, input_data, m) : m \in Modes }
    ELSE IF Len(input_data.shape) < 2
    THEN { Raised(Error(OpErrorType(m), "strided_slice", input_data.shape)) : m \in Modes }
    ELSE IF MatchesSpec(FoldedShape(input_data.shape))
    THEN { IF y.tag = "raise" THEN y
           ELSE Value(Tensor(<<input_data.shape[1], input_data.shape[2]>>
                               \o Tail(y.val.shape), y.val.data)) :
           y \in UNION { { Func(head, fx, m) : m \in Modes } :
                          fx \in {FoldedOf(input_data)} } }
    ELSE { Raised([type |-> "SpecCheckingError", op |-> "validate",
                   shape |-> input_data.shape,
                   new_shape |-> FoldedShape(input_data.shape),
                   original_error |-> Error("ValueError", "validate", input_data.shape),
                   new_error |-> Error("ValueError", "validate",
                                       FoldedShape(input_data.shape))]) }

\* Every call ends with an outcome of the first call with the same input.
C10_SameAsFirstCall ==
    Ended => ret \in C10_FirstCallOutcomes

\* C10: no step of the wrapper changes the head or its config, and every call
\* ends with the outcome the same input gives as the first call on the head
\* (in the same execution mode), whatever calls came before.
C10_WrapperIsStateless ==
    /\ []C10_SameAsFirstCall
    /\ [][ (pc \notin {"start", "idle"} \/ pc' = "precheck") =>
              (head' = head /\ config' = config /\ trained' = trained) ]_vars

\* A direct call that returns after an earlier call on the same head.
C10_Witness ==
    /\ called
    /\ pc = "done"
    /\ reshaped_inputs = None
    /\ trained
    /\ ret \in C10_FirstCallOutcomes

====
